---- MODULE Spec2Model ----
(***************************************************************************)
(* ContentSlotRepository: content slots stored as one row per slot in the  *)
(* table <prefix>contentslots and one row per option in the table          *)
(* <prefix>contentslot_options.  Every public operation is an async        *)
(* function: each `await` (getConnection, every conn.query) is one step of *)
(* the calling operation, so the steps of concurrent callers interleave.   *)
(***************************************************************************)
EXTENDS Integers, Sequences, FiniteSets, TLC

(***************************************************************************)
(* Bounds                                                                  *)
(***************************************************************************)
\* Number of slot ids the auto-increment counter hands out (ids 1..MaxSlots).
MaxSlots == 2
\* Number of public operations started in one behaviour.
MaxCalls == 3

(***************************************************************************)
(* Universe of inputs                                                      *)
(***************************************************************************)
Callers == {"caller1", "caller2"}
SlotIds == 1..MaxSlots
Names == {"color", "size"}
Values == {"red", "blue"}
ComponentTypes == {"Banner", "Clock"}
ViewIds == {1, 2}

\* errno of the storage engine's duplicate-key failure (ER_DUP_ENTRY).
ER_DUP_ENTRY == 1062

\* A name that has no option row / no property in an options object.
NoValue == "<absent>"
\* An option map: every name of the universe maps to its value or to NoValue.
OptionMaps == [Names -> Values \cup {NoValue}]
EmptyMap == [n \in Names |-> NoValue]
Keys(m) == {n \in Names : m[n] # NoValue}

\* The scalar arguments of createContentSlot / updateContentSlot.
SlotArgs ==
  { [componentType |-> "Banner", viewId |-> 1, columnStart |-> 1,
     rowStart |-> 1, columnEnd |-> 3, rowEnd |-> 2],
    [componentType |-> "Clock", viewId |-> 2, columnStart |-> 2,
     rowStart |-> 3, columnEnd |-> 4, rowEnd |-> 5] }
NoArgs ==
  [componentType |-> "", viewId |-> 0, columnStart |-> 0, rowStart |-> 0,
   columnEnd |-> 0, rowEnd |-> 0]

\* A row of the table contentslots (without its id, which is the index).
NoRow ==
  [view_id |-> 0, component_type |-> "", column_start |-> 0, row_start |-> 0,
   column_end |-> 0, row_end |-> 0]

\* Errors thrown by the storage driver: errno and diagnostic code.
DuplicateKey == [errno |-> ER_DUP_ENTRY, code |-> "ER_DUP_ENTRY"]
ForeignKey == [errno |-> 1452, code |-> "ER_NO_REFERENCED_ROW_2"]
Deadlock == [errno |-> 1213, code |-> "ER_LOCK_DEADLOCK"]
PoolTimeout == [errno |-> 45028, code |-> "ER_GET_CONNECTION_TIMEOUT"]

VARIABLES
  slots,     \* table contentslots: id -> row, NoRow when there is no such row
  opts,      \* table contentslot_options: contentslot_id -> option map
  nextId,    \* auto-increment counter of contentslots
  proc,      \* per caller: the operation in progress and its local variables
  active,    \* the callers that issue operations
  calls,     \* number of operations started so far
  prev,      \* the create call that immediately preceded a getContentSlotsByViewId
  lastWrite  \* per slot id: the option keys of the most recent successful write call

vars == <<slots, opts, nextId, proc, active, calls, prev, lastWrite>>
db == <<slots, opts, nextId>>

(***************************************************************************)
(* Values returned to (or thrown at) the caller                            *)
(***************************************************************************)
NoError == [errno |-> 0, code |-> ""]
NoResult == [kind |-> "none", id |-> 0, slots |-> <<>>, code |-> ""]
\* `return contentSlotId`, `return id`
IdValue(id) == [kind |-> "id", id |-> id, slots |-> <<>>, code |-> ""]
\* `return null`
Null == [kind |-> "null", id |-> 0, slots |-> <<>>, code |-> ""]
\* `return []`, `return rows.map(...)`
SlotList(s) == [kind |-> "slots", id |-> 0, slots |-> s, code |-> ""]
\* `throw new DuplicateEntryError(e.code)`
DuplicateEntryError(code) ==
  [kind |-> "DuplicateEntryError", id |-> 0, slots |-> <<>>, code |-> code]
\* `throw new Error(e.code)`
GenericError(code) == [kind |-> "Error", id |-> 0, slots |-> <<>>, code |-> code]
\* the driver's exception e itself, rethrown by a try/finally without catch
RawException(e) == [kind |-> "raw", id |-> 0, slots |-> <<>>, code |-> e.code]

(***************************************************************************)
(* The local state of one caller                                           *)
(***************************************************************************)
Idle ==
  [pc |-> "idle", op |-> "none", id |-> 0, args |-> NoArgs,
   optionsGiven |-> FALSE, options |-> EmptyMap,
   conn |-> FALSE, existingOptions |-> EmptyMap,
   delKeys |-> {}, setKeys |-> {},
   optionsChanged |-> FALSE, contentSlotChanged |-> FALSE,
   rows |-> <<>>, optionQueries |-> 0, releases |-> 0,
   thrown |-> NoError, failedAt |-> "", result |-> NoResult,
   overlap |-> "none", optionWrites |-> 0]

NoPrev ==
  [valid |-> FALSE, op |-> "none", id |-> 0, args |-> NoArgs,
   options |-> EmptyMap, viewWasEmpty |-> FALSE]

\* lastWrite of a slot before any write call; history is recorded only when
\* tracked is set (InitWrites)
Untracked == [tracked |-> FALSE, ok |-> FALSE, keys |-> {}, failedSince |-> FALSE]
NoWrite == [Untracked EXCEPT !.tracked = TRUE]

\* Mutation of Finally: the connection is released on the success path only.
Finally_OnSuccessOnly(r) ==
  IF r.conn /\ r.thrown = NoError
  THEN [r EXCEPT !.conn = FALSE, !.releases = @ + 1] ELSE r

\* `finally { if (conn) { conn.release() } }`
Finally(r) ==
  IF r.conn THEN [r EXCEPT !.conn = FALSE, !.releases = @ + 1] ELSE r

\* The operation settles with res after its finally block has run.
Settle(r, res) == [Finally(r) EXCEPT !.pc = "done", !.result = res]

\* Mutation of CreateCatch: the errno is not looked at.
CreateCatch_AlwaysGeneric(e) == GenericError(e.code)

\* createContentSlot's catch block.
CreateCatch(e) ==
  IF e.errno = ER_DUP_ENTRY THEN DuplicateEntryError(e.code)
  ELSE GenericError(e.code)

\* What reaches the caller when a statement (or getConnection) throws e:
\* createContentSlot catches and classifies, the other operations have
\* try/finally only.
Thrown(op, e) == IF op = "create" THEN CreateCatch(e) ELSE RawException(e)

Throw(r, e) ==
  Settle([r EXCEPT !.thrown = e, !.failedAt = r.pc], Thrown(r.op, e))

(***************************************************************************)
(* The storage engine                                                      *)
(***************************************************************************)
\* Parameter binding of the INSERT / UPDATE on contentslots:
\* (view_id, component_type, column_start, row_start, column_end, row_end)
\* VALUES [viewId, componentType, columnStart, rowStart, columnEnd, rowEnd]
RowOf(a) ==
  [view_id |-> a.viewId, component_type |-> a.componentType,
   column_start |-> a.columnStart, row_start |-> a.rowStart,
   column_end |-> a.columnEnd, row_end |-> a.rowEnd]

\* affectedRows of an UPDATE of one row: 1 when the row exists and a stored
\* value actually differs, 0 otherwise.
AffectedRows(exists, old, new) == IF exists /\ old # new THEN 1 ELSE 0

\* ascending sequence of a finite set of integers (rows come in key order)
RECURSIVE SortedSeq(_)
SortedSeq(S) ==
  IF S = {} THEN <<>>
  ELSE LET m == CHOOSE x \in S : \A y \in S : x <= y
       IN <<m>> \o SortedSeq(S \ {m})

RowWithId(i) ==
  [id |-> i, view_id |-> slots[i].view_id,
   component_type |-> slots[i].component_type,
   column_start |-> slots[i].column_start, row_start |-> slots[i].row_start,
   column_end |-> slots[i].column_end, row_end |-> slots[i].row_end]

SelectRows(ids) ==
  LET s == SortedSeq(ids) IN [k \in 1..Len(s) |-> RowWithId(s[k])]

(***************************************************************************)
(* Pure functions of the repository                                        *)
(***************************************************************************)
\* rowToObject: field projection, `options: {}`
rowToObject(row) ==
  [id |-> row.id, componentType |-> row.component_type,
   viewId |-> row.view_id, columnStart |-> row.column_start,
   rowStart |-> row.row_start, columnEnd |-> row.column_end,
   rowEnd |-> row.row_end, options |-> EmptyMap]

\* Mutation of rowToObjectWithOptions: the options are not copied.
rowToObjectWithOptions_NotCopied(row, options) == rowToObject(row)

\* rowToObjectWithOptions: every entry of the Map is copied into object.options
rowToObjectWithOptions(row, options) ==
  [rowToObject(row) EXCEPT
     !.options = [n \in Names |-> IF options[n] # NoValue THEN options[n] ELSE @[n]]]

\* The rows of contentslot_options as (contentslot_id, name, value) triples.
OptionRows ==
  { <<x[1], x[2], opts[x[1]][x[2]]>> :
      x \in {y \in SlotIds \X Names : opts[y[1]][y[2]] # NoValue} }

\* getOptionsForContentSlot: SELECT ... WHERE contentslot_id = id, rows
\* collected into a Map name -> value.
getOptionsForContentSlot(id) ==
  LET rows == {r \in OptionRows : r[1] = id}
  IN [n \in Names |->
        IF \E r \in rows : r[2] = n
        THEN (CHOOSE r \in rows : r[2] = n)[3] ELSE NoValue]

\* Mutation of getOptionsForContentSlots: the returned rows are not told apart
\* by contentslot_id, every requested id gets every returned row.
getOptionsForContentSlots_RowsOfAnyId(ids) ==
  LET rows == {r \in OptionRows : r[1] \in ids}
  IN [i \in ids |->
        [n \in Names |->
           IF \E r \in rows : r[2] = n
           THEN (CHOOSE r \in rows : r[2] = n)[3] ELSE NoValue]]

\* getOptionsForContentSlots: SELECT ... WHERE contentslot_id IN ids; an empty
\* Map is set for every id, then every returned row is filled in.
getOptionsForContentSlots(ids) ==
  LET rows == {r \in OptionRows : r[1] \in ids}
  IN [i \in ids |->
        [n \in Names |->
           IF \E r \in rows : r[1] = i /\ r[2] = n
           THEN (CHOOSE r \in rows : r[1] = i /\ r[2] = n)[3] ELSE NoValue]]

\* `options = {}`: the default parameter of setOptionsForContentSlot
DefaultOptions(given, options) == IF given THEN options ELSE EmptyMap

\* Mutations of KeysToDelete: no delete pass; every existing key deleted.
KeysToDelete_None(existing, options) == {}
KeysToDelete_AllExisting(existing, options) == Keys(existing)

\* first loop: existing keys without an own property in options
KeysToDelete(existing, options) == Keys(existing) \ Keys(options)
\* second loop: Object.entries(options)
KeysToSet(options) == Keys(options)

\* Mutation of OptionUpdateChanged: every update statement counts as a change.
OptionUpdateChanged_Always(affectedRows) == TRUE

\* second loop: `if (updateResult.affectedRows === 1) { optionsChanged = true }`
OptionUpdateChanged(affectedRows) == affectedRows = 1

\* Mutation of DeleteOneResult: the id is returned whatever was affected.
DeleteOneResult_AlwaysId(affectedRows, id) == IdValue(id)

\* deleteOne: `result.affectedRows === 1 ? id : null`
DeleteOneResult(affectedRows, id) == IF affectedRows = 1 THEN IdValue(id) ELSE Null

\* Mutation of UpdateResult: only the row's affected-row count is looked at.
UpdateResult_RowOnly(contentSlotChanged, optionsChanged, id) ==
  IF contentSlotChanged THEN IdValue(id) ELSE Null

\* updateContentSlot: `(contentSlotChanged || optionsChanged) ? id : null`
UpdateResult(contentSlotChanged, optionsChanged, id) ==
  IF contentSlotChanged \/ optionsChanged THEN IdValue(id) ELSE Null

\* What the operation returns once setOptionsForContentSlot has returned.
AfterOptions(r) ==
  IF r.op = "create" THEN IdValue(r.id)
  ELSE UpdateResult(r.contentSlotChanged, r.optionsChanged, r.id)

\* setOptionsForContentSlot returns when both loops are exhausted.
Continue(r) ==
  IF r.delKeys = {} /\ r.setKeys = {} THEN Settle(r, AfterOptions(r)) ELSE r

(***************************************************************************)
(* Initial state: empty tables, nobody has called anything                 *)
(***************************************************************************)
InitTables ==
  /\ slots = [i \in SlotIds |-> NoRow]
  /\ opts = [i \in SlotIds |-> EmptyMap]
  /\ nextId = 1
  /\ proc = [p \in Callers |-> Idle]
  /\ calls = 0
  /\ prev = NoPrev

\* one caller: operations run one after the other
Init ==
  /\ InitTables
  /\ active = {"caller1"}
  /\ lastWrite = [i \in SlotIds |-> Untracked]

(***************************************************************************)
(* Calls of the public operations                                          *)
(***************************************************************************)
CanCall(p) ==
  /\ p \in active
  /\ proc[p].pc = "idle"
  /\ calls < MaxCalls

Start(p, r) ==
  /\ proc' = [proc EXCEPT ![p] = r]
  /\ calls' = calls + 1
  /\ UNCHANGED <<slots, opts, nextId, active, lastWrite>>

\* ids that creates already under way will still draw from the counter
PendingInserts ==
  Cardinality({q \in Callers : proc[q].op = "create"
                               /\ proc[q].pc \in {"getConnection", "insertRow"}})

createContentSlot(p, a, given, o) ==
  /\ CanCall(p)
  /\ nextId + PendingInserts <= MaxSlots
  /\ Start(p, [Idle EXCEPT !.pc = "getConnection", !.op = "create", !.args = a,
                           !.optionsGiven = given, !.options = o])
  /\ prev' = NoPrev

\* prev stays when this call immediately follows a successful write of the
\* slot it deletes
deleteOne(p, id) ==
  /\ CanCall(p)
  /\ Start(p, [Idle EXCEPT !.pc = "getConnection", !.op = "deleteOne", !.id = id])
  /\ prev' = IF prev.valid /\ prev.id = id THEN prev ELSE NoPrev

\* prev stays when this call immediately follows a successful create for the
\* same view, and records whether that view held no slot before the create
getContentSlotsByViewId(p, viewId) ==
  /\ CanCall(p)
  /\ Start(p, [Idle EXCEPT !.pc = "getConnection", !.op = "getByViewId",
                           !.args = [NoArgs EXCEPT !.viewId = viewId]])
  /\ prev' =
       IF prev.valid /\ prev.op = "create" /\ prev.args.viewId = viewId
       THEN [prev EXCEPT !.viewWasEmpty =
               \A i \in SlotIds : slots[i].view_id = viewId => i = prev.id]
       ELSE NoPrev

getContentSlotsByComponentType(p, componentType) ==
  /\ CanCall(p)
  /\ Start(p, [Idle EXCEPT !.pc = "getConnection", !.op = "getByComponentType",
                           !.args = [NoArgs EXCEPT !.componentType = componentType]])
  /\ prev' = NoPrev

\* prev stays when this call immediately follows a successful write of the
\* same slot with the same scalar fields and the same options
updateContentSlot(p, id, a, given, o) ==
  /\ CanCall(p)
  /\ Start(p, [Idle EXCEPT !.pc = "getConnection", !.op = "update", !.id = id,
                           !.args = a, !.optionsGiven = given, !.options = o])
  /\ prev' = IF /\ prev.valid /\ prev.id = id /\ prev.args = a
                /\ prev.options = DefaultOptions(given, o)
             THEN prev ELSE NoPrev

\* Bookkeeping when an operation settles in state r: a write call that
\* succeeded becomes the most recent successful write of its slot, one that
\* failed is remembered as a failure since.
Recorded(r) ==
  IF r.pc = "done" /\ r.op \in {"create", "update"} /\ r.id # 0
     /\ lastWrite[r.id].tracked
  THEN [lastWrite EXCEPT ![r.id] =
          IF r.result.kind \in {"id", "null"}
          THEN [NoWrite EXCEPT
                  !.ok = TRUE,
                  !.keys = Keys(DefaultOptions(r.optionsGiven, r.options))]
          ELSE [@ EXCEPT !.failedSince = TRUE]]
  ELSE lastWrite

\* The caller's await of the operation's promise completes: the operation's
\* local variables are gone, the caller can issue its next call.
Await(p) ==
  /\ proc[p].pc = "done"
  /\ proc' = [proc EXCEPT ![p] = Idle]
  /\ prev' =
       IF \/ proc[p].op = "create" /\ proc[p].result.kind = "id"
          \/ proc[p].op = "update" /\ proc[p].result.kind \in {"id", "null"}
       THEN [valid |-> TRUE, op |-> proc[p].op, id |-> proc[p].id,
             args |-> proc[p].args,
             options |-> DefaultOptions(proc[p].optionsGiven, proc[p].options),
             viewWasEmpty |-> FALSE]
       ELSE NoPrev
  /\ UNCHANGED <<slots, opts, nextId, active, calls, lastWrite>>

(***************************************************************************)
(* conn = await this.connectionPool.getConnection()                        *)
(***************************************************************************)
FirstStatement(op) ==
  CASE op = "create" -> "insertRow"
    [] op = "deleteOne" -> "deleteRow"
    [] op = "getByViewId" -> "selectByViewId"
    [] op = "getByComponentType" -> "selectByComponentType"
    [] OTHER -> "updateRow"

GetConnection(p) ==
  /\ proc[p].pc = "getConnection"
  /\ proc' = [proc EXCEPT ![p] = [proc[p] EXCEPT !.conn = TRUE,
                                     !.pc = FirstStatement(proc[p].op)]]
  /\ UNCHANGED <<slots, opts, nextId, active, calls, prev, lastWrite>>

\* the pool is exhausted or the server unreachable: getConnection rejects
GetConnectionFails(p) ==
  /\ proc[p].pc = "getConnection"
  /\ proc' = [proc EXCEPT ![p] = Throw(proc[p], PoolTimeout)]
  /\ lastWrite' = Recorded(Throw(proc[p], PoolTimeout))
  /\ UNCHANGED <<slots, opts, nextId, active, calls, prev>>

(***************************************************************************)
(* Statements on contentslots                                              *)
(***************************************************************************)
\* What a statement of another caller's operation, now in state r, means for
\* the operation in state s: overlap records whether, while s was under way,
\* another operation executed a statement ("other"), and whether one did so
\* for the slot id s works on, before s's promise was awaited ("same").
Overlapped(s, r) ==
  IF s.pc = "idle" THEN s
  ELSE IF s.id # 0 /\ s.id = r.id THEN [s EXCEPT !.overlap = "same"]
  ELSE IF s.pc # "done" /\ s.overlap = "none" THEN [s EXCEPT !.overlap = "other"]
  ELSE s

\* One awaited conn.query of caller p's operation, which is in state r after it.
Step(p, r) ==
  /\ proc' = [q \in Callers |-> IF q = p THEN r ELSE Overlapped(proc[q], r)]
  /\ lastWrite' = Recorded(r)
  /\ UNCHANGED <<active, calls, prev>>

\* createContentSlot: INSERT INTO contentslots; insertId is the new id
InsertContentSlot(p) ==
  /\ proc[p].pc = "insertRow"
  /\ nextId <= MaxSlots
  /\ slots' = [slots EXCEPT ![nextId] = RowOf(proc[p].args)]
  /\ nextId' = nextId + 1
  /\ Step(p, [proc[p] EXCEPT !.id = nextId, !.pc = "selectOptions"])
  /\ UNCHANGED opts

\* the INSERT violates a uniqueness constraint of contentslots
InsertContentSlotDuplicate(p) ==
  /\ proc[p].pc = "insertRow"
  /\ Step(p, Throw(proc[p], DuplicateKey))
  /\ UNCHANGED db

\* Mutation of Cascade: the option rows of a deleted slot stay.
Cascade_Restrict(o, id) == o

\* contentslot_options.contentslot_id references contentslots.id ON DELETE
\* CASCADE: the option rows of a deleted slot are deleted with it
Cascade(o, id) == [o EXCEPT ![id] = EmptyMap]

\* deleteOne: DELETE FROM contentslots WHERE id = ? LIMIT 1; the option rows
\* of the slot go with it (foreign key, ON DELETE CASCADE)
DeleteContentSlot(p) ==
  /\ proc[p].pc = "deleteRow"
  /\ LET id == proc[p].id
         affectedRows == IF slots[id] # NoRow THEN 1 ELSE 0
     IN /\ slots' = [slots EXCEPT ![id] = NoRow]
        /\ opts' = Cascade(opts, id)
        /\ Step(p, Settle(proc[p], DeleteOneResult(affectedRows, id)))
  /\ UNCHANGED nextId

\* updateContentSlot: UPDATE contentslots SET ... WHERE id = ?
UpdateContentSlotRow(p) ==
  /\ proc[p].pc = "updateRow"
  /\ LET id == proc[p].id
         new == RowOf(proc[p].args)
         affectedRows == AffectedRows(slots[id] # NoRow, slots[id], new)
     IN /\ slots' = [slots EXCEPT ![id] = IF @ # NoRow THEN new ELSE @]
        /\ Step(p, [proc[p] EXCEPT !.contentSlotChanged = (affectedRows = 1),
                                   !.pc = "selectOptions"])
  /\ UNCHANGED <<opts, nextId>>

\* Mutation of SelectByViewId: no early return for a view without slot rows,
\* the batch query for options is issued with an empty id list.
SelectByViewId_NoEarlyReturn(p) ==
  /\ proc[p].pc = "selectByViewId"
  /\ LET rows == SelectRows({i \in SlotIds : slots[i] # NoRow
                                /\ slots[i].view_id = proc[p].args.viewId})
     IN Step(p, [proc[p] EXCEPT !.rows = rows, !.pc = "selectOptionsIn"])
  /\ UNCHANGED db

\* getContentSlotsByViewId: SELECT * FROM contentslots WHERE view_id = ?
SelectByViewId(p) ==
  /\ proc[p].pc = "selectByViewId"
  /\ LET rows == SelectRows({i \in SlotIds : slots[i] # NoRow
                                /\ slots[i].view_id = proc[p].args.viewId})
     IN Step(p, IF Len(rows) = 0 THEN Settle(proc[p], SlotList(<<>>))
                ELSE [proc[p] EXCEPT !.rows = rows, !.pc = "selectOptionsIn"])
  /\ UNCHANGED db

\* Mutation of SelectByComponentType: the options of the rows are fetched
\* and combined with them, as getContentSlotsByViewId does.
SelectByComponentType_WithOptions(p) ==
  /\ proc[p].pc = "selectByComponentType"
  /\ LET rows == SelectRows({i \in SlotIds : slots[i] # NoRow
                   /\ slots[i].component_type = proc[p].args.componentType})
         options == getOptionsForContentSlots({rows[k].id : k \in 1..Len(rows)})
     IN Step(p, Settle([proc[p] EXCEPT !.rows = rows],
                       SlotList([k \in 1..Len(rows) |->
                          rowToObjectWithOptions(rows[k], options[rows[k].id])])))
  /\ UNCHANGED db

\* getContentSlotsByComponentType: SELECT * FROM contentslots
\* WHERE component_type = ?, then rows.map(this.rowToObject)
SelectByComponentType(p) ==
  /\ proc[p].pc = "selectByComponentType"
  /\ LET rows == SelectRows({i \in SlotIds : slots[i] # NoRow
                   /\ slots[i].component_type = proc[p].args.componentType})
     IN Step(p, Settle([proc[p] EXCEPT !.rows = rows],
                       SlotList([k \in 1..Len(rows) |-> rowToObject(rows[k])])))
  /\ UNCHANGED db

(***************************************************************************)
(* Statements on contentslot_options                                       *)
(***************************************************************************)
\* getContentSlotsByViewId: getOptionsForContentSlots(conn, contentSlotIds),
\* then every row is combined with options.get(row.id)
SelectOptionsIn(p) ==
  /\ proc[p].pc = "selectOptionsIn"
  /\ LET rows == proc[p].rows
         contentSlotIds == {rows[k].id : k \in 1..Len(rows)}
         options == getOptionsForContentSlots(contentSlotIds)
     IN Step(p, Settle([proc[p] EXCEPT !.optionQueries = @ + 1],
                       SlotList([k \in 1..Len(rows) |->
                          rowToObjectWithOptions(rows[k], options[rows[k].id])])))
  /\ UNCHANGED db

\* Mutation of SelectOptions: an omitted options argument has no default,
\* setOptionsForContentSlot returns false for it without a statement.
SelectOptions_UnlessOmitted(p) ==
  /\ proc[p].pc = "selectOptions"
  /\ LET options == proc[p].options
         existingOptions == getOptionsForContentSlot(proc[p].id)
     IN Step(p, IF ~proc[p].optionsGiven
                THEN Settle(proc[p], AfterOptions(proc[p]))
                ELSE Continue([proc[p] EXCEPT
                        !.existingOptions = existingOptions,
                        !.optionQueries = @ + 1,
                        !.delKeys = KeysToDelete(existingOptions, options),
                        !.setKeys = KeysToSet(options),
                        !.pc = "syncOptions"]))
  /\ UNCHANGED db

\* setOptionsForContentSlot: existingOptions = await getOptionsForContentSlot
SelectOptions(p) ==
  /\ proc[p].pc = "selectOptions"
  /\ LET options == DefaultOptions(proc[p].optionsGiven, proc[p].options)
         existingOptions == getOptionsForContentSlot(proc[p].id)
     IN Step(p, Continue([proc[p] EXCEPT
                  !.existingOptions = existingOptions,
                  !.optionQueries = @ + 1,
                  !.delKeys = KeysToDelete(existingOptions, options),
                  !.setKeys = KeysToSet(options),
                  !.pc = "syncOptions"]))
  /\ UNCHANGED db

\* Mutation of DeleteOption: the DELETE names the option only, not the slot.
DeleteOption_OfEverySlot(p) ==
  /\ proc[p].pc = "syncOptions"
  /\ \E key \in proc[p].delKeys :
       /\ opts' = [i \in SlotIds |-> [opts[i] EXCEPT ![key] = NoValue]]
       /\ Step(p, Continue([proc[p] EXCEPT !.delKeys = @ \ {key},
                                           !.optionWrites = @ + 1,
                                           !.optionsChanged = TRUE]))
  /\ UNCHANGED <<slots, nextId>>

\* first loop: DELETE FROM contentslot_options WHERE contentslot_id = ? AND name = ?
DeleteOption(p) ==
  /\ proc[p].pc = "syncOptions"
  /\ \E key \in proc[p].delKeys :
       /\ opts' = [opts EXCEPT ![proc[p].id][key] = NoValue]
       /\ Step(p, Continue([proc[p] EXCEPT !.delKeys = @ \ {key},
                                           !.optionWrites = @ + 1,
                                           !.optionsChanged = TRUE]))
  /\ UNCHANGED <<slots, nextId>>

\* Mutation of UpdateOption: a value equal to the one read at the start is
\* not written again, no UPDATE is issued for it.
UpdateOption_UnlessSameValue(p) ==
  /\ proc[p].pc = "syncOptions"
  /\ proc[p].delKeys = {}
  /\ \E key \in proc[p].setKeys :
       LET id == proc[p].id
           value == proc[p].options[key]
           affectedRows == AffectedRows(opts[id][key] # NoValue, opts[id][key], value)
           same == proc[p].existingOptions[key] = value
       IN /\ proc[p].existingOptions[key] # NoValue
          /\ opts' = IF same THEN opts
                     ELSE [opts EXCEPT ![id][key] = IF @ # NoValue THEN value ELSE @]
          /\ Step(p, Continue([proc[p] EXCEPT
                       !.setKeys = @ \ {key},
                       !.optionWrites = IF same THEN @ ELSE @ + 1,
                       !.optionsChanged =
                          (@ \/ (~same /\ OptionUpdateChanged(affectedRows)))]))
  /\ UNCHANGED <<slots, nextId>>

\* second loop, existingOptions.has(key): UPDATE contentslot_options SET value
UpdateOption(p) ==
  /\ proc[p].pc = "syncOptions"
  /\ proc[p].delKeys = {}
  /\ \E key \in proc[p].setKeys :
       LET id == proc[p].id
           value == proc[p].options[key]
           affectedRows == AffectedRows(opts[id][key] # NoValue, opts[id][key], value)
       IN /\ proc[p].existingOptions[key] # NoValue
          /\ opts' = [opts EXCEPT ![id][key] = IF @ # NoValue THEN value ELSE @]
          /\ Step(p, Continue([proc[p] EXCEPT
                       !.setKeys = @ \ {key},
                       !.optionWrites = @ + 1,
                       !.optionsChanged = (@ \/ OptionUpdateChanged(affectedRows))]))
  /\ UNCHANGED <<slots, nextId>>

\* second loop, new key: INSERT INTO contentslot_options
InsertOption(p) ==
  /\ proc[p].pc = "syncOptions"
  /\ proc[p].delKeys = {}
  /\ \E key \in proc[p].setKeys :
       LET id == proc[p].id
       IN /\ proc[p].existingOptions[key] = NoValue
          /\ opts[id][key] = NoValue
          /\ slots[id] # NoRow
          /\ opts' = [opts EXCEPT ![id][key] = proc[p].options[key]]
          /\ Step(p, Continue([proc[p] EXCEPT !.setKeys = @ \ {key},
                                              !.optionWrites = @ + 1,
                                              !.optionsChanged = TRUE]))
  /\ UNCHANGED <<slots, nextId>>

\* the INSERT hits an option row (contentslot_id, name) written meanwhile
InsertOptionDuplicate(p) ==
  /\ proc[p].pc = "syncOptions"
  /\ proc[p].delKeys = {}
  /\ \E key \in proc[p].setKeys :
       /\ proc[p].existingOptions[key] = NoValue
       /\ opts[proc[p].id][key] # NoValue
  /\ Step(p, Throw(proc[p], DuplicateKey))
  /\ UNCHANGED db

\* the INSERT names a contentslot_id that has no slot row
InsertOptionNoSlot(p) ==
  /\ proc[p].pc = "syncOptions"
  /\ proc[p].delKeys = {}
  /\ \E key \in proc[p].setKeys :
       /\ proc[p].existingOptions[key] = NoValue
       /\ opts[proc[p].id][key] = NoValue
       /\ slots[proc[p].id] = NoRow
  /\ Step(p, Throw(proc[p], ForeignKey))
  /\ UNCHANGED db

\* Mutation of StatementFails: the statements of setOptionsForContentSlot run
\* in a transaction that is rolled back when one of them fails.
StatementFails_RolledBack(p) ==
  /\ proc[p].pc \in {"insertRow", "deleteRow", "updateRow", "selectByViewId",
                     "selectByComponentType", "selectOptionsIn",
                     "selectOptions", "syncOptions"}
  /\ Step(p, Throw(proc[p], Deadlock))
  /\ opts' = IF proc[p].pc = "syncOptions"
             THEN [opts EXCEPT ![proc[p].id] = proc[p].existingOptions]
             ELSE opts
  /\ UNCHANGED <<slots, nextId>>

\* any statement can fail for a reason of the engine (lock timeout, deadlock,
\* lost connection); nothing is written by the failing statement
StatementFails(p) ==
  /\ proc[p].pc \in {"insertRow", "deleteRow", "updateRow", "selectByViewId",
                     "selectByComponentType", "selectOptionsIn",
                     "selectOptions", "syncOptions"}
  /\ Step(p, Throw(proc[p], Deadlock))
  /\ UNCHANGED db

(***************************************************************************)
(* Specification                                                           *)
(***************************************************************************)
\* the options objects callers pass: color absent, red or blue; size absent
\* or blue
OptionsObjects == {o \in OptionMaps : o["size"] # "red"}
\* the options argument: <<given, map>>; omitted is <<FALSE, EmptyMap>>
OptionsArgs ==
  {<<TRUE, o>> : o \in OptionsObjects} \cup {<<FALSE, EmptyMap>>}

Statement(p) ==
  \/ GetConnection(p)
  \/ GetConnectionFails(p)
  \/ InsertContentSlot(p)
  \/ InsertContentSlotDuplicate(p)
  \/ DeleteContentSlot(p)
  \/ UpdateContentSlotRow(p)
  \/ SelectByViewId(p)
  \/ SelectByComponentType(p)
  \/ SelectOptionsIn(p)
  \/ SelectOptions(p)
  \/ DeleteOption(p)
  \/ UpdateOption(p)
  \/ InsertOption(p)
  \/ InsertOptionNoSlot(p)
  \/ StatementFails(p)

Next ==
  \E p \in Callers :
    \/ \E a \in SlotArgs, o \in OptionsArgs : createContentSlot(p, a, o[1], o[2])
    \/ \E id \in SlotIds : deleteOne(p, id)
    \/ \E viewId \in ViewIds : getContentSlotsByViewId(p, viewId)
    \/ \E c \in ComponentTypes : getContentSlotsByComponentType(p, c)
    \/ \E id \in SlotIds, a \in SlotArgs, o \in OptionsArgs :
         updateContentSlot(p, id, a, o[1], o[2])
    \/ Await(p)
    \/ Statement(p)

Spec == Init /\ [][Next]_vars

(***************************************************************************)
(* Two callers whose operations run concurrently: every await of one       *)
(* operation is a point where a statement of the other can execute.        *)
(***************************************************************************)
InitConcurrent ==
  /\ InitTables
  /\ active = Callers
  /\ lastWrite = [i \in SlotIds |-> Untracked]

ConcurrentArgs == {a \in SlotArgs : a.componentType = "Banner"}
ConcurrentOptions ==
  {<<TRUE, o>> : o \in {m \in OptionsObjects :
                          Cardinality(Keys(m)) = 1 /\ m["color"] # "blue"}}

NextConcurrent ==
  \E p \in Callers :
    \/ \E a \in ConcurrentArgs, o \in ConcurrentOptions :
         createContentSlot(p, a, o[1], o[2])
    \/ \E id \in SlotIds, a \in ConcurrentArgs, o \in ConcurrentOptions :
         updateContentSlot(p, id, a, o[1], o[2])
    \/ Await(p)
    \/ GetConnection(p)
    \/ GetConnectionFails(p)
    \/ InsertContentSlot(p)
    \/ InsertContentSlotDuplicate(p)
    \/ UpdateContentSlotRow(p)
    \/ SelectOptions(p)
    \/ DeleteOption(p)
    \/ UpdateOption(p)
    \/ InsertOption(p)
    \/ InsertOptionDuplicate(p)
    \/ InsertOptionNoSlot(p)
    \/ StatementFails(p)

SpecConcurrent == InitConcurrent /\ [][NextConcurrent]_vars

(***************************************************************************)
(* One caller issuing write calls only (createContentSlot and              *)
(* updateContentSlot), with the history of successful writes recorded.     *)
(***************************************************************************)
InitWrites ==
  /\ InitTables
  /\ active = {"caller1"}
  /\ lastWrite = [i \in SlotIds |-> NoWrite]

\* the write calls keep the slot in one place and vary the options
WriteArgs == {a \in SlotArgs : a.viewId = 1}
WriteOptions == {o \in OptionsArgs : o[1] /\ o[2]["color"] # "blue"}

NextWrites ==
  \E p \in Callers :
    \/ \E a \in WriteArgs, o \in WriteOptions : createContentSlot(p, a, o[1], o[2])
    \/ \E id \in SlotIds, a \in WriteArgs, o \in WriteOptions :
         updateContentSlot(p, id, a, o[1], o[2])
    \/ Await(p)
    \/ GetConnection(p)
    \/ GetConnectionFails(p)
    \/ InsertContentSlot(p)
    \/ InsertContentSlotDuplicate(p)
    \/ UpdateContentSlotRow(p)
    \/ SelectOptions(p)
    \/ DeleteOption(p)
    \/ UpdateOption(p)
    \/ InsertOption(p)
    \/ InsertOptionNoSlot(p)
    \/ StatementFails(p)

SpecWrites == InitWrites /\ [][NextWrites]_vars

(***************************************************************************)
(* Two callers updating concurrently, the repository having been           *)
(* constructed over tables that already hold one slot with two options     *)
(* (the rows createContentSlot stores for it).                             *)
(***************************************************************************)
StoredSlot == CHOOSE a \in ConcurrentArgs : TRUE
StoredOptions == [color |-> "red", size |-> "blue"]

InitStored ==
  /\ slots = [i \in SlotIds |-> IF i = 1 THEN RowOf(StoredSlot) ELSE NoRow]
  /\ opts = [i \in SlotIds |-> IF i = 1 THEN StoredOptions ELSE EmptyMap]
  /\ nextId = 2
  /\ proc = [p \in Callers |-> Idle]
  /\ calls = 0
  /\ prev = NoPrev
  /\ active = Callers
  /\ lastWrite = [i \in SlotIds |-> Untracked]

NextStored ==
  \E p \in Callers :
    \/ \E id \in SlotIds, a \in ConcurrentArgs, o \in ConcurrentOptions :
         updateContentSlot(p, id, a, o[1], o[2])
    \/ Await(p)
    \/ GetConnection(p)
    \/ GetConnectionFails(p)
    \/ UpdateContentSlotRow(p)
    \/ SelectOptions(p)
    \/ DeleteOption(p)
    \/ UpdateOption(p)
    \/ InsertOption(p)
    \/ InsertOptionDuplicate(p)
    \/ InsertOptionNoSlot(p)
    \/ StatementFails(p)

SpecStored == InitStored /\ [][NextStored]_vars

(***************************************************************************)
(* Properties                                                              *)
(***************************************************************************)
\* caller p's operation has settled
Done(p) == proc[p].pc = "done"
\* ... and it was a createContentSlot or updateContentSlot whose
\* setOptionsForContentSlot ran to completion with no statement failing
Synchronized(p) ==
  /\ Done(p)
  /\ proc[p].op \in {"create", "update"}
  /\ proc[p].thrown = NoError
\* the desired option map D of p's call
Desired(p) == DefaultOptions(proc[p].optionsGiven, proc[p].options)

\* C1: when setOptionsForContentSlot(conn, slotId, D) has run to completion
\* with no statement failing and nothing interleaved (one caller), the option
\* rows of the slot are exactly D: same keys, and for every key the value D[k].
C1_SynchronizedOptionsEqualDesired ==
  \A p \in Callers :
    Synchronized(p) =>
      /\ Keys(opts[proc[p].id]) = Keys(Desired(p))
      /\ \A k \in Keys(Desired(p)) : opts[proc[p].id][k] = Desired(p)[k]

\* a completed synchronisation that had to delete one key and change the
\* value of another
C1_Witness ==
  \E p \in Callers :
    /\ Synchronized(p)
    /\ Keys(proc[p].existingOptions) \ Keys(Desired(p)) # {}
    /\ \E k \in Keys(Desired(p)) :
         proc[p].existingOptions[k] \notin {NoValue, Desired(p)[k]}

\* C2: setOptionsForContentSlot returns changed = false exactly when the
\* starting map S (the rows it read) equals D, true whenever a key was added,
\* removed or altered; with D empty it returns true exactly when S was
\* non-empty.
C2_ChangedIffMapsDiffer ==
  \A p \in Callers :
    Synchronized(p) =>
      /\ proc[p].optionsChanged = (proc[p].existingOptions # Desired(p))
      /\ Desired(p) = EmptyMap =>
           proc[p].optionsChanged = (proc[p].existingOptions # EmptyMap)

\* a synchronisation of a non-empty map onto identical rows: update statements
\* were issued, none counted
C2_Witness ==
  \E p \in Callers :
    /\ Synchronized(p)
    /\ Desired(p) # EmptyMap
    /\ proc[p].existingOptions = Desired(p)
    /\ ~proc[p].optionsChanged

\* C3: an operation that acquired a connection holds it while its statements
\* run and has released it exactly once when it settles, whatever the outcome;
\* an operation whose getConnection failed releases nothing; so when no
\* operation is in flight no connection is held.
C3_ConnectionReleasedOnce ==
  \A p \in Callers :
    /\ Done(p) =>
         /\ ~proc[p].conn
         /\ proc[p].releases = IF proc[p].failedAt = "getConnection" THEN 0 ELSE 1
    /\ proc[p].pc \notin {"idle", "getConnection", "done"} =>
         proc[p].conn /\ proc[p].releases = 0
    /\ proc[p].result # NoResult => ~proc[p].conn

\* a createContentSlot that ended in DuplicateEntryError after releasing
C3_Witness ==
  \E p \in Callers :
    /\ Done(p)
    /\ proc[p].op = "create"
    /\ proc[p].result.kind = "DuplicateEntryError"
    /\ proc[p].releases = 1

\* no operation is in flight
Quiescent == \A p \in Callers : proc[p].pc \in {"idle", "done"}

\* C4 as stated: the stored option keys of a slot always equal the keys of the
\* most recent successful write call for that slot, also after calls that
\* failed part-way.
C4_Original_KeysOfLastSuccessfulWrite ==
  Quiescent =>
    \A i \in SlotIds :
      lastWrite[i].ok => Keys(opts[i]) = lastWrite[i].keys

\* C4 amended: whenever the most recent write call for a slot succeeded (no
\* write call for it has failed since), the stored option keys of the slot are
\* exactly the keys of that call's options.
C4_KeysOfLastWriteIfSucceeded ==
  Quiescent =>
    \A i \in SlotIds :
      lastWrite[i].ok /\ ~lastWrite[i].failedSince =>
        Keys(opts[i]) = lastWrite[i].keys

\* an update that replaced the keys of an earlier write by other keys
C4_Witness ==
  \E p \in Callers :
    /\ Synchronized(p)
    /\ proc[p].op = "update"
    /\ lastWrite[proc[p].id].ok /\ ~lastWrite[proc[p].id].failedSince
    /\ Keys(proc[p].existingOptions) \ lastWrite[proc[p].id].keys # {}
    /\ lastWrite[proc[p].id].keys # {}

\* C5: updateContentSlot returns the id exactly when the row update affected
\* a row or the option synchronisation reported a change, and null when
\* neither did.
C5_UpdateReturnsIdIffChanged ==
  \A p \in Callers :
    Synchronized(p) /\ proc[p].op = "update" =>
      /\ proc[p].contentSlotChanged \/ proc[p].optionsChanged =>
           proc[p].result = IdValue(proc[p].id)
      /\ ~proc[p].contentSlotChanged /\ ~proc[p].optionsChanged =>
           proc[p].result = Null

\* an update with identical row values that changed only options
C5_Witness ==
  \E p \in Callers :
    /\ Synchronized(p)
    /\ proc[p].op = "update"
    /\ ~proc[p].contentSlotChanged
    /\ slots[proc[p].id] = RowOf(proc[p].args)
    /\ proc[p].existingOptions # Desired(p)
    /\ proc[p].result = IdValue(proc[p].id)

\* the engine or the pool failed for a reason of its own
EnvironmentFailure(p) == proc[p].thrown \in {Deadlock, PoolTimeout}

\* C6 as stated: updateContentSlot on an id without a slot row returns null,
\* as a normal result, whatever options map is passed.
C6_UpdateOfMissingSlotReturnsNull ==
  \A p \in Callers :
    /\ Done(p)
    /\ proc[p].op = "update"
    /\ slots[proc[p].id] = NoRow
    /\ ~EnvironmentFailure(p)
    => proc[p].result = Null

\* createContentSlot of caller p has settled
Created(p) == Done(p) /\ proc[p].op = "create"

\* what createContentSlot gives back apart from DuplicateEntryError: the
\* generic error with the diagnostic code for a failure, the id of the
\* inserted row on success
CreateOtherOutcomes(p, duplicate) ==
  /\ proc[p].result.kind = "DuplicateEntryError" =>
       proc[p].result.code = proc[p].thrown.code
  /\ proc[p].thrown # NoError /\ ~duplicate =>
       proc[p].result = GenericError(proc[p].thrown.code)
  /\ proc[p].thrown = NoError =>
       /\ proc[p].result = IdValue(proc[p].id)
       /\ proc[p].id \in SlotIds /\ proc[p].id < nextId

\* C7 as stated: createContentSlot fails with DuplicateEntryError exactly when
\* the slot-row insert violates a uniqueness constraint, with the generic error
\* for every other failure, and returns the inserted id on success.
C7_Original_DuplicateOnlyFromSlotInsert ==
  \A p \in Callers :
    Created(p) =>
      LET duplicate == /\ proc[p].failedAt = "insertRow"
                       /\ proc[p].thrown.errno = ER_DUP_ENTRY
      IN /\ (proc[p].result.kind = "DuplicateEntryError") = duplicate
         /\ CreateOtherOutcomes(p, duplicate)

\* C7 amended: createContentSlot fails with DuplicateEntryError exactly when a
\* statement of the call fails with the duplicate-key errno, be it the slot-row
\* insert or the insert of an option row; generic error otherwise; inserted id
\* on success.
C7_DuplicateFromAnyStatement ==
  \A p \in Callers :
    Created(p) =>
      LET duplicate == proc[p].thrown.errno = ER_DUP_ENTRY
      IN /\ (proc[p].result.kind = "DuplicateEntryError") = duplicate
         /\ CreateOtherOutcomes(p, duplicate)

\* a create whose option insert collided with a row written by a concurrent
\* update of the slot it had just inserted
C7_Witness ==
  \E p \in Callers :
    /\ Created(p)
    /\ proc[p].result.kind = "DuplicateEntryError"
    /\ proc[p].failedAt = "syncOptions"
    /\ slots[proc[p].id] # NoRow

\* C8 as stated: every operation ends in a domain value, the absent sentinel
\* or a typed failure; the driver's own exception never reaches the caller.
C8_NoRawException ==
  \A p \in Callers :
    Done(p) =>
      proc[p].result.kind \in {"id", "slots", "null", "DuplicateEntryError", "Error"}

\* C9: the DELETE of deleteOne removes at most one slot row, that of the given
\* id; deleteOne returns the id exactly when one row was removed; for an id
\* without a slot row it returns null and no stored row changes.
C9_DeleteOneStep ==
  \A p \in Callers :
    /\ proc[p].pc = "deleteRow"
    /\ proc'[p].pc = "done"
    /\ proc'[p].thrown = NoError
    => LET id == proc[p].id
           removed == {i \in SlotIds : slots[i] # NoRow /\ slots'[i] = NoRow}
       IN /\ Cardinality(removed) <= 1
          /\ removed \subseteq {id}
          /\ \A i \in SlotIds \ removed : slots'[i] = slots[i]
          /\ (proc'[p].result = IdValue(id)) = (Cardinality(removed) = 1)
          /\ proc'[p].result \in {IdValue(id), Null}
          /\ slots[id] = NoRow =>
               /\ proc'[p].result = Null
               /\ slots' = slots /\ opts' = opts

\* C9: every step of the repository satisfies the statement above about
\* deleteOne's DELETE (at most one row removed, id returned exactly then, a
\* missing id gives null and changes nothing).
C9_DeleteOne == [][C9_DeleteOneStep]_vars

\* a deleteOne of an id without a row that returned null while another slot,
\* with options, stayed stored
C9_Witness ==
  \E p \in Callers :
    /\ Done(p)
    /\ proc[p].op = "deleteOne"
    /\ proc[p].result = Null
    /\ proc[p].thrown = NoError
    /\ \E i \in SlotIds : slots[i] # NoRow /\ opts[i] # EmptyMap

\* C10: getContentSlotsByViewId(viewId) called right after a successful
\* createContentSlot into a view without slots returns exactly one slot: the
\* id create returned, the scalar fields and the options passed to create.
C10_CreateThenGetByViewId ==
  \A p \in Callers :
    /\ Done(p)
    /\ proc[p].op = "getByViewId"
    /\ proc[p].thrown = NoError
    /\ prev.valid /\ prev.viewWasEmpty
    => proc[p].result =
         SlotList(<< [id |-> prev.id,
                      componentType |-> prev.args.componentType,
                      viewId |-> prev.args.viewId,
                      columnStart |-> prev.args.columnStart,
                      rowStart |-> prev.args.rowStart,
                      columnEnd |-> prev.args.columnEnd,
                      rowEnd |-> prev.args.rowEnd,
                      options |-> prev.options] >>)

\* such a get after a create with two options, a slot of another view stored
C10_Witness ==
  \E p \in Callers :
    /\ Done(p)
    /\ proc[p].op = "getByViewId"
    /\ proc[p].thrown = NoError
    /\ prev.valid /\ prev.viewWasEmpty
    /\ Keys(prev.options) = Names
    /\ \E i \in SlotIds : slots[i] # NoRow /\ i # prev.id


\* The slots stored for a view, and the ids of a returned sequence of slots.
SlotsOfView(viewId) == {i \in SlotIds : slots[i] # NoRow /\ slots[i].view_id = viewId}
ReturnedIds(res) == {res.slots[k].id : k \in 1..Len(res.slots)}

\* C11: a getContentSlotsByViewId that returned has issued no query on the
\* option table when the view has no slot row (and returned the empty
\* sequence), and exactly one when the view has N >= 1 slot rows, whatever N;
\* while it runs it has never issued more than one.
C11_OneOptionQueryPerFetch ==
  \A p \in Callers :
    proc[p].op = "getByViewId" =>
      /\ proc[p].optionQueries <= 1
      /\ Done(p) /\ proc[p].thrown = NoError =>
           LET N == Cardinality(SlotsOfView(proc[p].args.viewId))
           IN /\ Len(proc[p].result.slots) = N
              /\ proc[p].optionQueries = IF N = 0 THEN 0 ELSE 1

\* a fetch that returned two slots of one view after one option query
C11_Witness ==
  \E p \in Callers :
    /\ Done(p)
    /\ proc[p].op = "getByViewId"
    /\ proc[p].thrown = NoError
    /\ Len(proc[p].result.slots) = 2
    /\ proc[p].optionQueries = 1

\* C12: getOptionsForContentSlots(ids) has exactly the requested ids as keys
\* and maps each id to exactly the option rows stored for it (none: the empty
\* map); so each slot a getContentSlotsByViewId returns is a slot of the view
\* and carries the options stored for its own id.
C12_OptionsOfTheirOwnSlot ==
  \A p \in Callers :
    /\ proc[p].pc = "selectOptionsIn" =>
         LET ids == {proc[p].rows[k].id : k \in 1..Len(proc[p].rows)}
             options == getOptionsForContentSlots(ids)
         IN /\ DOMAIN options = ids
            /\ \A i \in ids : options[i] = opts[i]
    /\ Done(p) /\ proc[p].op = "getByViewId" /\ proc[p].thrown = NoError =>
         LET res == proc[p].result
         IN /\ ReturnedIds(res) = SlotsOfView(proc[p].args.viewId)
            /\ \A k \in 1..Len(res.slots) :
                 res.slots[k].options = opts[res.slots[k].id]

\* a fetch that returned two slots whose stored options differ, one of them
\* without any option
C12_Witness ==
  \E p \in Callers :
    /\ Done(p)
    /\ proc[p].op = "getByViewId"
    /\ proc[p].thrown = NoError
    /\ \E k, l \in 1..Len(proc[p].result.slots) :
         /\ proc[p].result.slots[k].options = EmptyMap
         /\ Keys(proc[p].result.slots[l].options) = Names


\* C13: two updateContentSlot calls on the same slot id are not serialised:
\* when both have completed, each option name holds what one of the two
\* callers wanted for that name (its value, or no row), and nothing more is
\* guaranteed: the stored map as a whole can equal neither caller's map
\* (C13_Witness is such a state).
C13_EachNameFromOneCaller ==
  \A p, q \in Callers :
    /\ p # q
    /\ Synchronized(p) /\ Synchronized(q)
    /\ proc[p].op = "update" /\ proc[q].op = "update"
    /\ proc[p].id = proc[q].id
    => \A n \in Names :
         opts[proc[p].id][n] \in {Desired(p)[n], Desired(q)[n]}

\* both updates of one existing slot completed, their statements interleaved,
\* and the stored option map is neither caller's desired map
C13_Witness ==
  \E p, q \in Callers :
    /\ p # q
    /\ Synchronized(p) /\ Synchronized(q)
    /\ proc[p].op = "update" /\ proc[q].op = "update"
    /\ proc[p].id = proc[q].id
    /\ slots[proc[p].id] # NoRow
    /\ proc[p].overlap = "same" /\ proc[q].overlap = "same"
    /\ proc[p].existingOptions = proc[q].existingOptions
    /\ opts[proc[p].id] # proc[p].existingOptions
    /\ opts[proc[p].id] # Desired(p)
    /\ opts[proc[p].id] # Desired(q)

\* C14: a setOptionsForContentSlot call during which no other caller's
\* operation executed a statement for the same slot id is not affected by the
\* statements other callers execute for other slot ids: however they
\* interleave, its slot ends with exactly its desired map and its changed
\* value is the one of running alone (existing map differs from desired map).
C14_DifferentSlotsIndependent ==
  \A p \in Callers :
    Synchronized(p) /\ proc[p].overlap # "same" =>
      /\ opts[proc[p].id] = Desired(p)
      /\ proc[p].optionsChanged = (proc[p].existingOptions # Desired(p))

\* two calls for different slot ids, each under way while the other executed
\* statements, both completed; one started from a non-empty map
C14_Witness ==
  \E p, q \in Callers :
    /\ Synchronized(p) /\ Synchronized(q)
    /\ proc[p].id # proc[q].id
    /\ proc[p].overlap = "other" /\ proc[q].overlap = "other"
    /\ proc[p].op = "update"
    /\ proc[p].existingOptions # EmptyMap
    /\ opts[proc[p].id] = Desired(p) /\ opts[proc[q].id] = Desired(q)


\* caller p's create or update failed in setOptionsForContentSlot, at its
\* read (pc "selectOptions") or at one of its writes (pc "syncOptions")
FailedInOptions(p) ==
  /\ Done(p)
  /\ proc[p].op \in {"create", "update"}
  /\ proc[p].thrown # NoError
  /\ proc[p].failedAt \in {"selectOptions", "syncOptions"}

\* C15: when a statement of setOptionsForContentSlot fails after earlier
\* ones succeeded, the call fails and nothing is rolled back: every name
\* whose statement had been executed keeps the desired value (or stays
\* deleted), every other name keeps the value read at the start, so the slot
\* can be left with a map that is neither the starting nor the desired one
\* (C15_Witness); a slot row that createContentSlot inserted stays stored
\* when its option synchronisation fails.
C15_NoRollback ==
  \A p \in Callers :
    FailedInOptions(p) =>
      /\ proc[p].result.kind \notin {"id", "null"}
      /\ proc[p].failedAt = "syncOptions" =>
           opts[proc[p].id] =
             [n \in Names |->
                IF n \in proc[p].delKeys \cup proc[p].setKeys
                THEN proc[p].existingOptions[n] ELSE Desired(p)[n]]
      /\ proc[p].op = "create" => slots[proc[p].id] = RowOf(proc[p].args)

\* an update failed at its second statement: the stored map is neither the
\* map it started from nor the desired one
C15_Witness ==
  \E p \in Callers :
    /\ FailedInOptions(p)
    /\ proc[p].op = "update"
    /\ proc[p].failedAt = "syncOptions"
    /\ opts[proc[p].id] # proc[p].existingOptions
    /\ opts[proc[p].id] # Desired(p)


RepeatedUpdate(p) ==
  /\ Done(p)
  /\ proc[p].op = "update"
  /\ proc[p].thrown = NoError
  /\ prev.valid
  /\ slots[proc[p].id] # NoRow

\* C17: an updateContentSlot that repeats the preceding successful write of
\* an existing slot (an update, or the create, with identical scalar fields
\* and identical options map, the empty map included) returns null, reports
\* no change of row or options, and the stored slot row and option rows are
\* still the ones the preceding write left.
C17_RepeatedUpdateReturnsNull ==
  \A p \in Callers :
    RepeatedUpdate(p) =>
      /\ proc[p].result = Null
      /\ ~proc[p].contentSlotChanged /\ ~proc[p].optionsChanged
      /\ slots[proc[p].id] = RowOf(prev.args)
      /\ opts[proc[p].id] = prev.options

\* the second of two identical updates, with two options, returned null
C17_Witness ==
  \E p \in Callers :
    /\ RepeatedUpdate(p)
    /\ prev.op = "update"
    /\ Keys(prev.options) = Names
    /\ proc[p].result = Null


\* The slots stored with a component type.
SlotsOfComponentType(c) ==
  {i \in SlotIds : slots[i] # NoRow /\ slots[i].component_type = c}

\* C18: a getContentSlotsByComponentType that returned has issued no query
\* on the option table and returns one object per stored slot row of that
\* component type, with the row's scalar fields and an empty options map,
\* whatever option rows are stored for the slot.
C18_ByComponentTypeWithoutOptions ==
  \A p \in Callers :
    proc[p].op = "getByComponentType" =>
      /\ proc[p].optionQueries = 0
      /\ Done(p) /\ proc[p].thrown = NoError =>
           LET res == proc[p].result
               ids == SlotsOfComponentType(proc[p].args.componentType)
           IN /\ res.kind = "slots"
              /\ Len(res.slots) = Cardinality(ids)
              /\ ReturnedIds(res) = ids
              /\ \A k \in 1..Len(res.slots) :
                   LET o == res.slots[k]
                       row == slots[o.id]
                   IN /\ o.componentType = row.component_type
                      /\ o.viewId = row.view_id
                      /\ o.columnStart = row.column_start
                      /\ o.rowStart = row.row_start
                      /\ o.columnEnd = row.column_end
                      /\ o.rowEnd = row.row_end
              /\ \A k \in 1..Len(res.slots) : res.slots[k].options = EmptyMap

\* two slots of the component type returned, one of them stored with options
C18_Witness ==
  \E p \in Callers :
    /\ Done(p)
    /\ proc[p].op = "getByComponentType"
    /\ proc[p].thrown = NoError
    /\ Len(proc[p].result.slots) = 2
    /\ \E k \in 1..2 : opts[proc[p].result.slots[k].id] # EmptyMap


\* The statement caller p's setOptionsForContentSlot executes in this step is
\* a DELETE, an UPDATE or an INSERT of option name n of its slot: what each
\* requires of the snapshot read at the start and of the statements executed
\* before it, and what it leaves.
C19_Delete(p, n) ==
  LET r == proc[p] IN
  /\ r.existingOptions[n] # NoValue /\ Desired(p)[n] = NoValue
  /\ n \in r.delKeys /\ proc'[p].delKeys = r.delKeys \ {n}
  /\ r.setKeys = Keys(Desired(p)) /\ proc'[p].setKeys = r.setKeys
  /\ opts'[r.id][n] = NoValue
  /\ proc'[p].optionsChanged

C19_Update(p, n) ==
  LET r == proc[p] IN
  /\ r.existingOptions[n] # NoValue /\ Desired(p)[n] # NoValue
  /\ r.delKeys = {} /\ proc'[p].delKeys = {}
  /\ n \in r.setKeys /\ proc'[p].setKeys = r.setKeys \ {n}
  /\ opts'[r.id][n] = Desired(p)[n]
  /\ proc'[p].optionsChanged = (r.optionsChanged \/ opts[r.id][n] # Desired(p)[n])

C19_Insert(p, n) ==
  LET r == proc[p] IN
  /\ r.existingOptions[n] = NoValue /\ Desired(p)[n] # NoValue
  /\ r.delKeys = {} /\ proc'[p].delKeys = {}
  /\ n \in r.setKeys /\ proc'[p].setKeys = r.setKeys \ {n}
  /\ opts[r.id][n] = NoValue /\ opts'[r.id][n] = Desired(p)[n]
  /\ proc'[p].optionsChanged

C19_Step(p) ==
  LET r == proc[p]
      r2 == proc'[p]
  IN r.op \in {"create", "update"} /\ r.pc # "done" =>
       \* the read: once, before every write, of the rows stored for the slot
       /\ r2.optionQueries # r.optionQueries =>
            /\ r.optionQueries = 0 /\ r2.optionQueries = 1
            /\ r.optionWrites = 0 /\ r2.optionWrites = 0
            /\ r2.existingOptions = opts[r.id]
            /\ r2.delKeys \cap Keys(Desired(p)) = {}
            /\ db' = db
       \* a write: after the read, one statement for one name of the slot
       /\ r2.optionWrites # r.optionWrites =>
            /\ r2.optionWrites = r.optionWrites + 1
            /\ r.optionQueries = 1 /\ r2.optionQueries = 1
            /\ r2.existingOptions = r.existingOptions
            /\ \E n \in Names :
                 /\ C19_Delete(p, n) \/ C19_Update(p, n) \/ C19_Insert(p, n)
                 /\ \A i \in SlotIds, m \in Names :
                      (i # r.id \/ m # n) => opts'[i][m] = opts[i][m]
            /\ slots' = slots
       \* names are taken off the lists by executing their statement only
       /\ r.pc = "syncOptions" /\ r2.thrown = NoError =>
            r2.optionWrites = r.optionWrites + 1
       \* the call returns when every name has had its one statement
       /\ r.pc \in {"selectOptions", "syncOptions"} /\ r2.pc = "done"
          /\ r2.thrown = NoError =>
            /\ r2.optionQueries = 1
            /\ r2.optionWrites =
                 Cardinality(Keys(r2.existingOptions) \cup Keys(Desired(p)))

\* C19: every step of a setOptionsForContentSlot call is, in this order: the
\* single read of the slot's existing options; then one DELETE per existing
\* name that is absent from the desired map (never of a name in it); then,
\* for each desired name, one UPDATE if the name was in the snapshot read
\* (issued even when the value is unchanged, and a change only when a row
\* was affected) or one INSERT otherwise. The options are never read again.
C19_StatementOrder == [][\A p \in Callers : C19_Step(p)]_vars

\* an update that deleted one name and then issued the UPDATE of a name
\* whose value was already the desired one
C19_Witness ==
  \E p \in Callers :
    /\ Synchronized(p)
    /\ proc[p].op = "update"
    /\ proc[p].optionQueries = 1
    /\ proc[p].optionWrites = 2
    /\ \E n, m \in Names :
         /\ proc[p].existingOptions[n] = Desired(p)[n]
         /\ Desired(p)[n] # NoValue
         /\ proc[p].existingOptions[m] # NoValue
         /\ Desired(p)[m] = NoValue


\* C20: a createContentSlot or updateContentSlot called without the options
\* argument synchronises the slot to the empty map: the create writes no
\* option row, the update deletes every option row stored for the slot (one
\* DELETE per row) and, whenever there was at least one, returns the id.
C20_OmittedOptionsAreEmptyMap ==
  \A p \in Callers :
    Synchronized(p) /\ ~proc[p].optionsGiven =>
      /\ proc[p].optionQueries = 1
      /\ \A r \in OptionRows : r[1] # proc[p].id
      /\ proc[p].optionWrites = Cardinality(Keys(proc[p].existingOptions))
      /\ proc[p].op = "create" =>
           proc[p].optionWrites = 0 /\ proc[p].result = IdValue(proc[p].id)
      /\ proc[p].op = "update" /\ proc[p].existingOptions # EmptyMap =>
           proc[p].optionsChanged /\ proc[p].result = IdValue(proc[p].id)

\* an update without options of a slot stored with two options and the same
\* scalar fields: both rows deleted, the id returned
C20_Witness ==
  \E p \in Callers :
    /\ Synchronized(p)
    /\ ~proc[p].optionsGiven
    /\ proc[p].op = "update"
    /\ Keys(proc[p].existingOptions) = Names
    /\ ~proc[p].contentSlotChanged
    /\ proc[p].result = IdValue(proc[p].id)
    /\ opts[proc[p].id] = EmptyMap

====
